---- MODULE Spec2Model ----
(***************************************************************************)
(* A model of the Moltbook client of src/carcinologer/api.py: the retry    *)
(* loop of MoltbookAPI._request, the endpoints built on it, the            *)
(* cursor-paginated collector get_all_posts, the with-block that holds the *)
(* client, and scrape_all_data.                                            *)
(*                                                                         *)
(* Python values are encoded so that TLC can compare them:                 *)
(*   Optional[T]   None is <<>>, a value v is <<v>>                        *)
(*   a local that may be unbound (r in _request) is <<>> until assigned    *)
(*   exceptions    records [exc |-> <class name>, ...]                     *)
(***************************************************************************)
EXTENDS Integers, Sequences, FiniteSets, TLC

VARIABLES
    max_retries,   \* self.max_retries
    retry_delay,   \* self.retry_delay
    api_key,       \* self.api_key (Optional[str])
    op,            \* the public call in progress on the client
    cpc,           \* position of that call: "idle", "await" (inside _request), "done"
    cout,          \* how that call ended: [kind |-> "none" | "return" | "raise", val |-> ...]
    rpc,           \* position of _request: "idle", "loop", "done"
    attempt,       \* the for-loop index of _request
    r,             \* the local r of _request; <<>> while unbound
    last_error,    \* the local last_error of _request (Optional[exception])
    rout,          \* how _request ended
    attempts,      \* history: the outcome of every client.request of this _request call
    sleeps,        \* history: the argument of every time.sleep of this _request call
    args,          \* the arguments of the public call in progress
    all_posts,     \* the local all_posts of get_all_posts
    cursor,        \* the local cursor of get_all_posts (Optional[str])
    page,          \* the local page of get_all_posts
    requests,      \* history: the query parameters of every _request call of this public call
    fetched,       \* history: every result get_posts returned to the collector
    page_sleeps,   \* history: the number of time.sleep(0.5) of this public call
    scope,         \* the with-block holding the client: "inside", "returned", "raised"
    closed,        \* whether self.client.close() has run
    scrape,        \* the frame of scrape_all_data: its position, arguments, locals, histories
    headers,       \* the default headers of self.client
    process,       \* the process around the client: environment, credential file, API_KEY
    explorer,      \* a NetworkExplorer: its fields, the position of fetch_pending_bodies, histories
    twin           \* the frame of a get_all_submolt_posts call: its position, locals, histories

vars == <<max_retries, retry_delay, api_key, op, cpc, cout,
          rpc, attempt, r, last_error, rout, attempts, sleeps,
          args, all_posts, cursor, page, requests, fetched, page_sleeps,
          scope, closed, scrape, headers, process, explorer, twin>>

config == <<max_retries, retry_delay, api_key, headers>>
elsewhere == <<process, explorer, twin>>
request_frame == <<rpc, attempt, r, last_error, rout, attempts, sleeps>>
collector_frame == <<all_posts, cursor, page, fetched, page_sleeps>>
session == <<scope, closed>>

(***************************************************************************)
(* Bounds of the model.                                                    *)
(***************************************************************************)
MaxRetries == 2      \* max_retries ranges over 0..MaxRetries
MaxPageLen == 2      \* a page of the server holds 0..MaxPageLen records
MaxPageReq == 3      \* the collector is followed for at most MaxPageReq page requests
MaxPosts == 3        \* max_posts ranges over None and 0..MaxPosts
MaxRetriesAlone == 3 \* max_retries ranges over 0..MaxRetriesAlone when _request is studied alone

(***************************************************************************)
(* Python values.                                                          *)
(***************************************************************************)
None == <<>>
Some(v) == <<v>>
TruthyStr(o) == o # None /\ o[1] # ""     \* bool(x) of an Optional[str]
TruthyInt(o) == o # None /\ o[1] # 0      \* bool(x) of an Optional[int]

NoOutcome == [kind |-> "none"]
Return(v) == [kind |-> "return", val |-> v]
Raise(e) == [kind |-> "raise", val |-> e]

TimeoutException(i) == [exc |-> "TimeoutException", attempt |-> i]
ConnectError(i) == [exc |-> "ConnectError", attempt |-> i]
UnboundLocalError == [exc |-> "UnboundLocalError"]
HTTPStatusError(s) == [exc |-> "HTTPStatusError", status |-> s]

Min(a, b) == IF a <= b THEN a ELSE b

RECURSIVE Concat(_)
Concat(ss) == IF ss = <<>> THEN <<>> ELSE Head(ss) \o Concat(Tail(ss))

(***************************************************************************)
(* The server and the transport, as seen through client.request: it        *)
(* returns a response, or raises httpx.TimeoutException, or raises another *)
(* transport error (which _request does not catch).                        *)
(***************************************************************************)
RETRY_STATUS == {429, 500, 502, 503, 504}
Statuses == {200, 401, 404, 429, 503}
\* The statuses drawn for the calls made through an endpoint: one of each kind
\* (success, unauthorised, another client error, a retryable one).
EndpointStatuses == {200, 401, 404, 429}

Response(s, items, c) == [status |-> s, items |-> items, next_cursor |-> c]

\* The records the server has handed to the collector so far; the records of
\* the next page are new ones (a feed walked along well-formed cursors).
Pages == [i \in 1..Len(fetched) |-> fetched[i].posts]
Served == Len(Concat(Pages))

\* The JSON objects the server sends.  The object numbered k carries its
\* optional keys when k is even and leaves them out when k is odd, so that
\* every list of two or more objects holds both shapes.
Full(k) == k % 2 = 0

JsonPost(k) ==
    [id |-> k, title |-> "title", submolt |-> "submolt", author |-> "author",
     upvotes |-> k, downvotes |-> 0, comment_count |-> k % 2,
     created_at |-> "created"]
      @@ (IF Full(k)
          THEN [content |-> Some("content"), url |-> Some("url"), is_pinned |-> TRUE]
          ELSE <<>>)

JsonComment(k) ==
    [id |-> k, content |-> "content", author |-> "author", upvotes |-> k,
     downvotes |-> 0, created_at |-> "created"]
      @@ (IF Full(k) THEN [parent_id |-> Some("parent")] ELSE <<>>)

JsonSubmolt(k) ==
    [id |-> k, name |-> "m" \o ToString(k), display_name |-> "display",
     description |-> "description", subscriber_count |-> k,
     created_at |-> "created"]
      @@ (IF Full(k)
          THEN [last_activity_at |-> Some("active"), featured_at |-> Some("featured"),
                created_by |-> Some("creator")]
          ELSE <<>>)

JsonAgent(k) ==
    IF Full(k)
    THEN [id |-> ToString(k), name |-> "agent", post_count |-> k,
          comment_count |-> k + 1, score |-> k + 2]
    ELSE <<>>

JsonItem(ep, k) ==
    CASE ep \in {"get_submolts", "get_stats"} -> JsonSubmolt(k)
      [] ep = "get_leaderboard" -> JsonAgent(k)
      [] ep = "get_post_comments" -> JsonComment(k)
      [] OTHER -> JsonPost(k)

FreshItems(n) == [j \in 1..n |-> JsonItem(op, Served + j)]

\* The counters of the /submolts body; a body with no community leaves them out.
Counters(n) ==
    IF n > 0 /\ op \in {"get_submolts", "get_stats"} THEN [count |-> n, total_posts |-> 10 * n, total_comments |-> 20 * n]
    ELSE <<>>

\* The continuation token of the response to the current page request.
Token == "c" \o ToString(Len(requests))
Cursors == {None, Some(""), Some(Token)}

Responses ==
    IF op = "_request"
    THEN {Response(s, <<>>, None) : s \in Statuses}
    ELSE IF op \in {"get_submolts", "get_stats", "get_leaderboard", "get_post_comments"}
    THEN {Response(s, <<>>, None) : s \in EndpointStatuses \ {200}}
            \cup {Response(200, FreshItems(n), None) @@ Counters(n) : n \in 0..MaxPageLen}
    ELSE {Response(s, <<>>, None) : s \in EndpointStatuses \ {200}}
            \cup {Response(200, FreshItems(n), c) : n \in 0..MaxPageLen, c \in Cursors}

Outcomes ==
    {[kind |-> "timeout"], [kind |-> "connect_error"]}
        \cup {[kind |-> "response", resp |-> x] : x \in Responses}


(***************************************************************************)
(* MoltbookAPI.__init__                                                    *)
(***************************************************************************)
\* Mutant: the header is attached whenever a key is given, an empty one too.
Headers_WheneverGiven(key) ==
    [Authorization |-> IF key # None THEN Some("Bearer " \o key[1]) ELSE None]

\* headers = DEFAULT_HEADERS.copy(); if api_key: headers["Authorization"] = ...
Headers(key) ==
    [Authorization |-> IF TruthyStr(key) THEN Some("Bearer " \o key[1]) ELSE None]

\* A process in which the client was built with `explicit` as its api_key
\* argument, the environment and the credential file holding nothing.
NoFile == [exists |-> FALSE]
ProcessOf(explicit) ==
    [pc |-> "constructed", env |-> None, file |-> NoFile, API_KEY |-> None,
     explicit |-> explicit]

\* The request ids of the browser: two whose URL is tracked, one whose is not.
RequestIds == {"a", "b", "x"}

\* NetworkExplorer.__init__: nothing pending, queued or collected;
\* fetch_pending_bodies is not running.  Histories: the deliveries so far,
\* per id the tracked ResponseReceived recorded, the LoadingFinished
\* delivered and those delivered after a recorded ResponseReceived, the infos
\* the last fetch_pending_bodies call removed from pending_requests, and
\* whether a call has returned with no event delivered since.
NewExplorer ==
    [fpc |-> "idle", cur |-> None,
     pending_requests |-> <<>>, ready_to_fetch |-> <<>>,
     collected_responses |-> <<>>,
     deliveries |-> 0,
     recorded |-> [id \in RequestIds |-> 0],
     finished |-> [id \in RequestIds |-> 0],
     finished_after |-> [id \in RequestIds |-> 0],
     removed |-> <<>>, quiet |-> FALSE]

\* No get_all_submolt_posts call is in progress.
NewTwin ==
    [cpc |-> "idle", cout |-> NoOutcome, all_posts |-> <<>>, cursor |-> None,
     page |-> 0, requests |-> <<>>, page_sleeps |-> 0, why |-> "none"]

ApiKeys == {None, Some(""), Some("key")}
RetryDelays == {2}

\* The client after construction, its configuration drawn from the given sets.
Constructed(retries, delays, keys) ==
    /\ max_retries \in retries
    /\ retry_delay \in delays
    /\ api_key \in keys
    /\ headers = Headers(api_key)
    /\ explorer = NewExplorer
    /\ twin = NewTwin
    /\ op = "none"
    /\ cpc = "idle"
    /\ cout = NoOutcome
    /\ rpc = "idle"
    /\ attempt = 0
    /\ r = <<>>
    /\ last_error = None
    /\ rout = NoOutcome
    /\ attempts = <<>>
    /\ sleeps = <<>>
    /\ args = <<>>
    /\ all_posts = <<>>
    /\ cursor = None
    /\ page = 0
    /\ requests = <<>>
    /\ fetched = <<>>
    /\ page_sleeps = 0
    /\ scope = "inside"
    /\ closed = FALSE
    /\ scrape = [pc |-> "idle"]

Init ==
    /\ Constructed(0..MaxRetries, RetryDelays, ApiKeys)
    /\ process = ProcessOf(api_key)

(***************************************************************************)
(* MoltbookAPI._request                                                    *)
(***************************************************************************)
\* No _request call is in progress: its frame and its histories are empty.
NoRequest ==
    /\ rpc' = "idle"
    /\ attempt' = 0
    /\ r' = <<>>
    /\ last_error' = None
    /\ rout' = NoOutcome
    /\ attempts' = <<>>
    /\ sleeps' = <<>>

\* Entry of _request: last_error = None, the for loop starts at attempt 0.
\* Mutant: the loop index is kept from the call before, a budget shared by
\* the calls of one client.
EnterRequest_KeepsAttempt ==
    /\ rpc' = "loop"
    /\ attempt' = attempt
    /\ r' = <<>>
    /\ last_error' = None
    /\ rout' = NoOutcome
    /\ attempts' = <<>>
    /\ sleeps' = <<>>

\* The entry of _request: fresh locals, fresh histories.
EnterRequest ==
    /\ rpc' = "loop"
    /\ attempt' = 0
    /\ r' = <<>>
    /\ last_error' = None
    /\ rout' = NoOutcome
    /\ attempts' = <<>>
    /\ sleeps' = <<>>

\* Mutant: one attempt too many, range(self.max_retries + 1).
InRange_OneMore(i) == i <= max_retries

\* for attempt in range(self.max_retries): whether index i is in the range.
InRange(i) == i < max_retries

\* Mutant: every error status is retried.
ShouldRetry_AnyError(resp) == resp.status >= 400

\* Mutant: a 401 is retried like a transient failure.
ShouldRetry_Also401(resp) == resp.status \in RETRY_STATUS \cup {401}

\* r.status_code in (429, 500, 502, 503, 504)
ShouldRetry(resp) == resp.status \in RETRY_STATUS

\* Mutant: the same delay after every attempt.
Backoff_Constant(i) == retry_delay

\* Mutant: the backoff is computed from the zero-based index, so that the
\* first failure is followed by no delay.
Backoff_ZeroBased(i) == retry_delay * i

\* The backoff slept after the attempt with index i.
Backoff(i) == retry_delay * (i + 1)

\* History: an attempt is recorded with the Authorization header it carried,
\* the one of self.client.
Sent(o) == o @@ [authorization |-> headers.Authorization]

\* One iteration of the for loop: one client.request and what follows it.
RequestAttempt(o) ==
    /\ rpc = "loop"
    /\ InRange(attempt)
    /\ attempts' = Append(attempts, Sent(o))
    /\ CASE o.kind = "timeout" ->
              /\ last_error' = Some(TimeoutException(attempt))
              /\ sleeps' = Append(sleeps, Backoff(attempt))
              /\ attempt' = attempt + 1
              /\ UNCHANGED <<r, rpc, rout>>
         [] o.kind = "connect_error" ->
              /\ rout' = Raise(ConnectError(attempt))
              /\ rpc' = "done"
              /\ UNCHANGED <<r, last_error, sleeps, attempt>>
         [] o.kind = "response" /\ ShouldRetry(o.resp) ->
              /\ r' = Some(o.resp)
              /\ sleeps' = Append(sleeps, Backoff(attempt))
              /\ attempt' = attempt + 1
              /\ UNCHANGED <<last_error, rpc, rout>>
         [] OTHER ->
              /\ r' = Some(o.resp)
              /\ rout' = Return(o.resp)
              /\ rpc' = "done"
              /\ UNCHANGED <<last_error, sleeps, attempt>>
    /\ UNCHANGED <<config, elsewhere, scrape, session, op, cpc, cout, args, collector_frame, requests>>

\* Mutant: the captured timeout is not re-raised.
AfterLoop_NoRaise ==
    IF r = <<>> THEN Raise(UnboundLocalError) ELSE Return(r[1])

\* The statements after the for loop: raise last_error if set, else return r.
AfterLoop ==
    IF last_error # None THEN Raise(last_error[1])
    ELSE IF r = <<>> THEN Raise(UnboundLocalError)
    ELSE Return(r[1])

\* The whole of one _request call, given the outcomes `script` of its
\* client.request calls in order: the for loop from index i with the locals
\* r = rr, last_error = le and the backoffs zs slept so far, then the
\* statements after the loop.  The result is how the call ends and what it
\* slept.
RECURSIVE RunRequestFrom(_, _, _, _, _)
RunRequestFrom(script, i, rr, le, zs) ==
    IF ~InRange(i) \/ i >= Len(script)
    THEN [out |-> IF le # None THEN Raise(le[1])
                  ELSE IF rr = <<>> THEN Raise(UnboundLocalError)
                  ELSE Return(rr[1]),
          sleeps |-> zs]
    ELSE LET o == script[i + 1] IN
         CASE o.kind = "timeout" ->
                RunRequestFrom(script, i + 1, rr, Some(TimeoutException(i)),
                               Append(zs, Backoff(i)))
           [] o.kind = "connect_error" ->
                [out |-> Raise(ConnectError(i)), sleeps |-> zs]
           [] o.kind = "response" /\ ShouldRetry(o.resp) ->
                RunRequestFrom(script, i + 1, Some(o.resp), le, Append(zs, Backoff(i)))
           [] OTHER -> [out |-> Return(o.resp), sleeps |-> zs]

RunRequest(script) == RunRequestFrom(script, 0, <<>>, None, <<>>)

RequestExit ==
    /\ rpc = "loop"
    /\ ~InRange(attempt)
    /\ rout' = AfterLoop
    /\ rpc' = "done"
    /\ UNCHANGED <<config, elsewhere, scrape, session, op, cpc, cout, attempt, r, last_error, attempts, sleeps,
                   args, collector_frame, requests>>

(***************************************************************************)
(* A direct call of _request, as the endpoints make it.                    *)
(***************************************************************************)
\* What every public call resets: the histories and the collector's locals.
ResetCall ==
    /\ cout' = NoOutcome
    /\ all_posts' = <<>>
    /\ cursor' = None
    /\ page' = 0
    /\ fetched' = <<>>
    /\ page_sleeps' = 0

CallRequest ==
    /\ scope = "inside"
    /\ cpc \in {"idle", "done"}
    /\ op' = "_request"
    /\ cpc' = "await"
    /\ args' = <<>>
    /\ requests' = <<[path |-> "any"]>>
    /\ ResetCall
    /\ EnterRequest
    /\ UNCHANGED <<config, elsewhere, scrape, session>>

RequestReturn ==
    /\ op = "_request"
    /\ cpc = "await"
    /\ rpc = "done"
    /\ cout' = rout
    /\ cpc' = "done"
    /\ UNCHANGED <<config, elsewhere, scrape, session, op, request_frame, args, collector_frame, requests>>

(***************************************************************************)
(* MoltbookAPI.get_posts, get_submolt_posts, get_post_comments             *)
(***************************************************************************)
FeedEndpoints == {"get_posts", "get_submolt_posts"}
Endpoints == FeedEndpoints \cup {"get_post_comments"}

Path(ep) ==
    CASE ep = "get_posts" -> "/posts"
      [] ep = "get_submolt_posts" -> "/submolts/{name}/feed"
      [] ep = "get_post_comments" -> "/posts/{id}/comments"
      [] ep \in {"get_submolts", "get_stats"} -> "/submolts"
      [] ep = "get_leaderboard" -> "/agents/leaderboard"

\* Mutant: the cursor is never sent.
FeedParams_DropsBefore(ep, limit, before) ==
    [path |-> Path(ep), limit |-> Min(limit, 100), before |-> None]

\* Mutant: the limit is sent as given.
FeedParams_NoClamp(ep, limit, before) ==
    [path |-> Path(ep),
     limit |-> limit,
     before |-> IF TruthyStr(before) THEN before ELSE None]

\* The query parameters get_posts and get_submolt_posts build.
FeedParams(ep, limit, before) ==
    [path |-> Path(ep),
     limit |-> Min(limit, 100),
     before |-> IF TruthyStr(before) THEN before ELSE None]

IsSuccess(s) == s \in 200..299

\* d.get(key, default) and d.get(key)
Get(d, key, default) == IF key \in DOMAIN d THEN d[key] ELSE default

\* Mutant: url is filled from the "content" key.
PostFromJson_UrlFromContent(p) ==
    [id |-> p.id, title |-> p.title, submolt |-> p.submolt, author |-> p.author,
     upvotes |-> p.upvotes, downvotes |-> p.downvotes,
     comment_count |-> p.comment_count, created_at |-> p.created_at,
     content |-> Get(p, "content", None),
     url |-> Get(p, "content", None),
     is_pinned |-> Get(p, "is_pinned", FALSE)]

PostFromJson(p) ==
    [id |-> p.id, title |-> p.title, submolt |-> p.submolt, author |-> p.author,
     upvotes |-> p.upvotes, downvotes |-> p.downvotes,
     comment_count |-> p.comment_count, created_at |-> p.created_at,
     content |-> Get(p, "content", None),
     url |-> Get(p, "url", None),
     is_pinned |-> Get(p, "is_pinned", FALSE)]

CommentFromJson(c, post_id) ==
    [id |-> c.id, content |-> c.content, author |-> c.author,
     upvotes |-> c.upvotes, downvotes |-> c.downvotes,
     created_at |-> c.created_at, post_id |-> post_id,
     parent_id |-> Get(c, "parent_id", None)]

SubmoltFromJson(m) ==
    [id |-> m.id, name |-> m.name, display_name |-> m.display_name,
     description |-> m.description, subscriber_count |-> m.subscriber_count,
     created_at |-> m.created_at,
     last_activity_at |-> Get(m, "last_activity_at", None),
     featured_at |-> Get(m, "featured_at", None),
     created_by |-> Get(m, "created_by", None)]

AgentFromJson(a) ==
    [id |-> Get(a, "id", ""), name |-> Get(a, "name", "unknown"),
     post_count |-> Get(a, "post_count", 0),
     comment_count |-> Get(a, "comment_count", 0),
     score |-> Get(a, "score", 0)]

StatsFromJson(data) ==
    [total_submolts |-> Get(data, "count", 0),
     total_posts |-> Get(data, "total_posts", 0),
     total_comments |-> Get(data, "total_comments", 0)]

MapPosts(items) == [i \in 1..Len(items) |-> PostFromJson(items[i])]
MapComments(items, post_id) == [i \in 1..Len(items) |-> CommentFromJson(items[i], post_id)]

\* Mutant: a 401 is never downgraded.
SoftAuth_Never(resp) == FALSE

\* Mutant: a 401 is downgraded whether or not a key is configured.
SoftAuth_IgnoresKey(resp) == resp.status = 401

\* The 401 branch of the three endpoints: no key configured.
SoftAuth(resp) == resp.status = 401 /\ ~TruthyStr(api_key)

\* get_posts / get_submolt_posts after their _request call ended with `out`.
FeedResult(out) ==
    IF out.kind = "raise" THEN out
    ELSE IF SoftAuth(out.val) THEN Return([posts |-> <<>>, next_cursor |-> None])
    ELSE IF ~IsSuccess(out.val.status) THEN Raise(HTTPStatusError(out.val.status))
    ELSE Return([posts |-> MapPosts(out.val.items), next_cursor |-> out.val.next_cursor])

\* get_post_comments after its _request call ended with `out`.
CommentsResult(out, post_id) ==
    IF out.kind = "raise" THEN out
    ELSE IF SoftAuth(out.val) THEN Return(<<>>)
    ELSE IF ~IsSuccess(out.val.status) THEN Raise(HTTPStatusError(out.val.status))
    ELSE Return(MapComments(out.val.items, post_id))

Limits == {50, 100, 150}
Befores == {None, Some(""), Some("c0")}

EndpointCall(ep, limit, before) ==
    /\ scope = "inside"
    /\ cpc \in {"idle", "done"}
    /\ op' = ep
    /\ cpc' = "await"
    /\ args' = IF ep \in FeedEndpoints
               THEN [limit |-> limit, before |-> before]
               ELSE [post_id |-> "p1"]
    /\ requests' = IF ep \in FeedEndpoints
                   THEN <<FeedParams(ep, limit, before)>>
                   ELSE <<[path |-> Path(ep)]>>
    /\ ResetCall
    /\ EnterRequest
    /\ UNCHANGED <<config, elsewhere, scrape, session>>

\* get_submolts, get_leaderboard, get_stats after their _request call ended
\* with `out`: raise_for_status, then the records of the body.
PlainEndpoints == {"get_submolts", "get_leaderboard", "get_stats"}

PlainResult(ep, out) ==
    IF out.kind = "raise" THEN out
    ELSE IF ~IsSuccess(out.val.status) THEN Raise(HTTPStatusError(out.val.status))
    ELSE CASE ep = "get_submolts" ->
                Return([i \in 1..Len(out.val.items) |-> SubmoltFromJson(out.val.items[i])])
           [] ep = "get_leaderboard" ->
                Return([i \in 1..Len(out.val.items) |-> AgentFromJson(out.val.items[i])])
           [] ep = "get_stats" -> Return(StatsFromJson(out.val))

PlainCall(ep) ==
    /\ scope = "inside"
    /\ cpc \in {"idle", "done"}
    /\ op' = ep
    /\ cpc' = "await"
    /\ args' = <<>>
    /\ requests' = <<[path |-> Path(ep)]>>
    /\ ResetCall
    /\ EnterRequest
    /\ UNCHANGED <<config, elsewhere, scrape, session>>

PlainReturn ==
    /\ op \in PlainEndpoints
    /\ cpc = "await"
    /\ rpc = "done"
    /\ cout' = PlainResult(op, rout)
    /\ cpc' = "done"
    /\ UNCHANGED <<config, elsewhere, scrape, session, op, request_frame, args, collector_frame, requests>>

EndpointReturn ==
    /\ op \in Endpoints
    /\ cpc = "await"
    /\ rpc = "done"
    /\ cout' = IF op \in FeedEndpoints THEN FeedResult(rout)
               ELSE CommentsResult(rout, args.post_id)
    /\ cpc' = "done"
    /\ UNCHANGED <<config, elsewhere, scrape, session, op, request_frame, args, collector_frame, requests>>

(***************************************************************************)
(* MoltbookAPI.get_all_posts                                               *)
(***************************************************************************)
MaxPostsArgs == {None} \cup {Some(n) : n \in 0..MaxPosts}

\* all_posts = [], cursor = None, page = 0
GetAllPostsCall(mp) ==
    /\ scope = "inside"
    /\ cpc \in {"idle", "done"}
    /\ op' = "get_all_posts"
    /\ cpc' = "loop"
    /\ args' = [max_posts |-> mp]
    /\ requests' = <<>>
    /\ ResetCall
    /\ NoRequest
    /\ UNCHANGED <<config, elsewhere, scrape, session>>

\* Top of the while loop: page += 1, then get_posts(limit=100, before=cursor)
\* up to its _request call.
GetAllPostsFetch ==
    /\ op = "get_all_posts"
    /\ cpc = "loop"
    /\ page < MaxPageReq
    /\ page' = page + 1
    /\ requests' = Append(requests, FeedParams("get_posts", 100, cursor))
    /\ cpc' = "await"
    /\ EnterRequest
    /\ UNCHANGED <<config, elsewhere, scrape, session, op, cout, args, all_posts, cursor, fetched, page_sleeps>>

Take(s, n) == SubSeq(s, 1, Min(n, Len(s)))

\* Mutant: all_posts = posts instead of all_posts.extend(posts).
LoopBody_Overwrite(all, cur, mp, res) ==
    LET posts == res.posts
        ext == posts
        nxt == res.next_cursor
    IN  IF posts = <<>> THEN [all_posts |-> all, cursor |-> cur, stop |-> TRUE]
        ELSE IF TruthyInt(mp) /\ Len(ext) >= mp[1]
             THEN [all_posts |-> Take(ext, mp[1]), cursor |-> cur, stop |-> TRUE]
        ELSE IF ~TruthyStr(nxt)
             THEN [all_posts |-> ext, cursor |-> nxt, stop |-> TRUE]
        ELSE [all_posts |-> ext, cursor |-> nxt, stop |-> FALSE]

\* Mutant: the loop goes on when the response carries no cursor.
LoopBody_IgnoresMissingCursor(all, cur, mp, res) ==
    LET posts == res.posts
        ext == all \o posts
        nxt == res.next_cursor
    IN  IF posts = <<>> THEN [all_posts |-> all, cursor |-> cur, stop |-> TRUE]
        ELSE IF TruthyInt(mp) /\ Len(ext) >= mp[1]
             THEN [all_posts |-> Take(ext, mp[1]), cursor |-> cur, stop |-> TRUE]
        ELSE [all_posts |-> ext, cursor |-> nxt, stop |-> FALSE]

\* Mutant: the cursor is read before the page is tested for emptiness.
LoopBody_CursorFirst(all, cur, mp, res) ==
    LET posts == res.posts
        ext == all \o posts
        nxt == res.next_cursor
    IN  IF posts = <<>> THEN [all_posts |-> all, cursor |-> nxt, stop |-> TRUE]
        ELSE IF TruthyInt(mp) /\ Len(ext) >= mp[1]
             THEN [all_posts |-> Take(ext, mp[1]), cursor |-> nxt, stop |-> TRUE]
        ELSE IF ~TruthyStr(nxt)
             THEN [all_posts |-> ext, cursor |-> nxt, stop |-> TRUE]
        ELSE [all_posts |-> ext, cursor |-> nxt, stop |-> FALSE]

\* Mutant: max_posts is never tested.
LoopBody_NoLimit(all, cur, mp, res) ==
    LET posts == res.posts
        ext == all \o posts
        nxt == res.next_cursor
    IN  IF posts = <<>> THEN [all_posts |-> all, cursor |-> cur, stop |-> TRUE]
        ELSE IF ~TruthyStr(nxt)
             THEN [all_posts |-> ext, cursor |-> nxt, stop |-> TRUE]
        ELSE [all_posts |-> ext, cursor |-> nxt, stop |-> FALSE]

\* The rest of the loop body once get_posts returned `res`: the new all_posts
\* and cursor, and whether the loop breaks.
LoopBody(all, cur, mp, res) ==
    LET posts == res.posts
        ext == all \o posts
        nxt == res.next_cursor
    IN  IF posts = <<>> THEN [all_posts |-> all, cursor |-> cur, stop |-> TRUE]
        ELSE IF TruthyInt(mp) /\ Len(ext) >= mp[1]
             THEN [all_posts |-> Take(ext, mp[1]), cursor |-> cur, stop |-> TRUE]
        ELSE IF ~TruthyStr(nxt)
             THEN [all_posts |-> ext, cursor |-> nxt, stop |-> TRUE]
        ELSE [all_posts |-> ext, cursor |-> nxt, stop |-> FALSE]

\* Mutant: an error of a page request ends the collection with the posts of
\* the pages before it.
OnPageError_ReturnsPartial(all, res) == Return(all)

\* How the collector ends when its page request raised `res` while it held
\* `all`: no try statement encloses the call, the error leaves the collector.
OnPageError(all, res) == res

\* Mutant: the collector sleeps after every page, the last one included.
PageSleep_Always(stop) == 1

\* time.sleep(0.5) at the end of the loop body, reached unless the loop broke.
PageSleep(stop) == IF stop THEN 0 ELSE 1

\* get_posts returns or raises; the loop body runs to its break or its sleep.
GetAllPostsPage ==
    /\ op = "get_all_posts"
    /\ cpc = "await"
    /\ rpc = "done"
    /\ LET res == FeedResult(rout) IN
        IF res.kind = "raise"
        THEN /\ cout' = OnPageError(all_posts, res)
             /\ cpc' = "done"
             /\ UNCHANGED <<all_posts, cursor, fetched, page_sleeps>>
        ELSE LET b == LoopBody(all_posts, cursor, args.max_posts, res.val) IN
             /\ fetched' = Append(fetched, res.val)
             /\ all_posts' = b.all_posts
             /\ cursor' = b.cursor
             /\ page_sleeps' = page_sleeps + PageSleep(b.stop)
             /\ IF b.stop
                THEN /\ cout' = Return(b.all_posts)
                     /\ cpc' = "done"
                ELSE /\ cpc' = "loop"
                     /\ UNCHANGED cout
    /\ UNCHANGED <<config, elsewhere, scrape, session, op, request_frame, args, page, requests>>

(***************************************************************************)
(* MoltbookAPI.__enter__ / __exit__: the client held by a with-block.  The  *)
(* public calls above are the statements of the block; the block is left   *)
(* after one of them, by running off its end or by the error of the last   *)
(* call escaping it (an error may also be caught inside the block).        *)
(***************************************************************************)
\* Mutant: the session is closed only when the block ends without an error.
Exit_OnlyOnReturn(exc) == exc = None

\* __exit__(self, *args): self.client.close(), whatever the arguments.
Exit(exc) == TRUE

ExitScope(escaping) ==
    /\ scope = "inside"
    /\ cpc \in {"idle", "done"}
    /\ escaping => (cpc = "done" /\ cout.kind = "raise")
    /\ closed' = Exit(IF escaping THEN Some(cout.val) ELSE None)
    /\ scope' = IF escaping THEN "raised" ELSE "returned"
    /\ UNCHANGED <<config, elsewhere, scrape, op, cpc, cout, request_frame, args, collector_frame, requests>>

Next ==
    \/ CallRequest
    \/ \E o \in Outcomes : RequestAttempt(o)
    \/ RequestExit
    \/ RequestReturn
    \/ \E ep \in Endpoints, limit \in Limits, before \in Befores :
          EndpointCall(ep, limit, before)
    \/ EndpointReturn
    \/ \E ep \in PlainEndpoints : PlainCall(ep)
    \/ PlainReturn
    \/ \E mp \in MaxPostsArgs : GetAllPostsCall(mp)
    \/ GetAllPostsFetch
    \/ GetAllPostsPage
    \/ \E escaping \in BOOLEAN : ExitScope(escaping)

Spec == Init /\ [][Next]_vars

(***************************************************************************)
(* _request alone: a client on which only _request is called, with a wider *)
(* range of max_retries (the default 3 included) and of retry_delay.       *)
(***************************************************************************)
RetryDelaysAlone == {0, 1, 2}

InitRequest ==
    /\ Constructed(0..MaxRetriesAlone, RetryDelaysAlone, {None})
    /\ process = ProcessOf(api_key)

NextRequest ==
    \/ CallRequest
    \/ \E o \in Outcomes : RequestAttempt(o)
    \/ RequestExit
    \/ RequestReturn

SpecRequest == InitRequest /\ [][NextRequest]_vars

(***************************************************************************)
(* scrape_all_data.  Each call it makes on the client is taken in one step, *)
(* _request summarised by RunRequest; the two collectors are followed page *)
(* by page.  The server holds fixed data (a listing, a leaderboard, feeds,  *)
(* comments) and any call may meet timeouts, transport errors and error    *)
(* statuses, up to MaxFaults troubled calls in a run.                       *)
(***************************************************************************)
DefaultMaxRetries == 3   \* MoltbookAPI(api_key=api_key): max_retries = 3
DefaultRetryDelay == 2   \* and retry_delay = 2.0
MaxSubmolts == 2         \* the listing holds 0..MaxSubmolts submolts
MaxFeedPages == 2        \* the main feed holds MaxFeedPages pages
MaxFaults == 2           \* at most MaxFaults calls of a run meet a failure

ScrapeKeys == {None, Some("key")}

\* What one client.request can do, bodies left out.
Events ==
    {[kind |-> "timeout"], [kind |-> "connect_error"]}
        \cup {[kind |-> "response", resp |-> Response(s, <<>>, None)] : s \in Statuses}
Failures ==
    {e \in Events : e.kind = "timeout" \/ (e.kind = "response" /\ ShouldRetry(e.resp))}

\* The outcomes one _request call can meet: failures, then either an outcome
\* that ends the loop or the last attempt of the budget.
Scripts ==
    UNION {{pre \o <<e>> : pre \in [1..n -> Failures],
                          e \in (IF n + 1 = max_retries THEN Events
                                 ELSE Events \ Failures)} :
           n \in 0..(max_retries - 1)}

\* How a _request call can end, with the backoffs it slept.
RequestSummaries == {RunRequest(sc) : sc \in Scripts}

\* A call is troubled unless its first attempt is answered 200.
Faulty(sum) ==
    \/ sum.sleeps # <<>>
    \/ sum.out.kind # "return"
    \/ sum.out.val.status # 200
Affordable(sum) == Faulty(sum) => scrape.faults < MaxFaults
Charge(sum) == IF Faulty(sum) THEN 1 ELSE 0
Slept(sum) == IF sum.sleeps # <<>> THEN {"backoff"} ELSE {}

\* The body the server sends with a 200.
WithBody(out, items, c, extra) ==
    IF out.kind = "return" /\ out.val.status = 200
    THEN Return(Response(200, items, c) @@ extra)
    ELSE out

ListingItems(n) == [j \in 1..n |-> JsonSubmolt(j)]
ListingCounters(n) ==
    IF n > 0 THEN [count |-> n, total_posts |-> 10 * n, total_comments |-> 20 * n]
    ELSE <<>>
AgentItems == <<JsonAgent(1), JsonAgent(2)>>
CommentItems(id) == <<JsonComment(id)>>

\* Page pg of feed k: k = 0 is the main feed, of MaxFeedPages pages of one
\* post, the last one without a cursor; k >= 1 is the feed of the k-th
\* submolt, of one post, followed by a cursor and an empty page when k is odd.
FeedPage(k, pg) ==
    IF k = 0
    THEN IF pg <= MaxFeedPages
         THEN [items |-> <<JsonPost(pg)>>,
               next_cursor |-> IF pg < MaxFeedPages THEN Some("c" \o ToString(pg))
                               ELSE None]
         ELSE [items |-> <<>>, next_cursor |-> None]
    ELSE IF pg = 1
         THEN [items |-> <<JsonPost(10 * k + 1)>>,
               next_cursor |-> IF k % 2 = 1 THEN Some("c1") ELSE None]
         ELSE [items |-> <<>>, next_cursor |-> None]

\* asdict(self) of every record of a list: the same fields under the same names.
ToDicts(recs) == recs

\* result = {"stats": {}, "submolts": [], "agents": [], "all_posts": [],
\*           "submolt_posts": {}, "comments": {}}
EmptyResult ==
    [stats |-> <<>>, submolts |-> <<>>, agents |-> <<>>, all_posts |-> <<>>,
     submolt_posts |-> <<>>, comments |-> <<>>]

ScrapeBegin(ic) ==
    /\ scrape.pc = "idle"
    /\ scrape' = [pc |-> "stats", include_comments |-> ic, result |-> EmptyResult,
                  submolts |-> <<>>, all_posts |-> <<>>, idx |-> 1,
                  steps |-> <<>>, suspended |-> {}, collections |-> {},
                  order |-> <<>>, faults |-> 0]
    /\ UNCHANGED <<config, elsewhere, session, op, cpc, cout, request_frame, args,
                   collector_frame, requests>>

\* Mutant: only status errors are caught.
Caught_OnlyStatusErrors(e) == e.exc = "HTTPStatusError"

\* except Exception: every error of the client is an Exception.
Caught(e) ==
    e.exc \in {"TimeoutException", "ConnectError", "HTTPStatusError", "UnboundLocalError"}

Escapes(out) == out.kind = "raise" /\ ~Caught(out.val)

\* History: the collection step `id` was executed and ended with `out`.
Record(steps, id, out) ==
    (id :> [ok |-> out.kind = "return",
            data |-> IF out.kind = "return" THEN out.val ELSE <<>>]) @@ steps

\* What every call leaves in the frame: its backoffs and its trouble.
Met(sum) ==
    [scrape EXCEPT !.suspended = @ \cup Slept(sum), !.faults = @ + Charge(sum)]

\* An error no except clause catches leaves the with-block and the function.
Abort(frame, out) ==
    /\ scrape' = [frame EXCEPT !.pc = "raised"]
    /\ scope' = "raised"
    /\ closed' = Exit(Some(out.val))

\* [1/5] result["stats"] = api.get_stats()
ScrapeStats ==
    /\ scrape.pc = "stats"
    /\ \E sum \in RequestSummaries :
        /\ Affordable(sum)
        /\ LET out == PlainResult("get_stats",
                          WithBody(sum.out, ListingItems(MaxSubmolts), None,
                                   ListingCounters(MaxSubmolts)))
               frame == [Met(sum) EXCEPT !.steps = Record(@, "stats", out)]
           IN  IF Escapes(out) THEN Abort(frame, out)
               ELSE /\ scrape' = [frame EXCEPT
                                    !.pc = "submolts",
                                    !.result.stats = IF out.kind = "return" THEN out.val ELSE @]
                    /\ UNCHANGED session
    /\ UNCHANGED <<config, elsewhere, op, cpc, cout, request_frame, args, collector_frame, requests>>

\* [2/5] submolts = api.get_submolts(); submolts = [] when it raises
ScrapeSubmolts ==
    /\ scrape.pc = "submolts"
    /\ \E sum \in RequestSummaries, n \in 0..MaxSubmolts :
        /\ Affordable(sum)
        /\ LET out == PlainResult("get_submolts",
                          WithBody(sum.out, ListingItems(n), None, ListingCounters(n)))
               frame == [Met(sum) EXCEPT !.steps = Record(@, "submolts", out)]
           IN  IF Escapes(out) THEN Abort(frame, out)
               ELSE /\ scrape' = [frame EXCEPT
                                    !.pc = "leaderboard",
                                    !.submolts = IF out.kind = "return" THEN out.val ELSE <<>>,
                                    !.result.submolts =
                                        IF out.kind = "return" THEN ToDicts(out.val) ELSE @]
                    /\ UNCHANGED session
    /\ UNCHANGED <<config, elsewhere, op, cpc, cout, request_frame, args, collector_frame, requests>>

\* [3/5] agents = api.get_leaderboard()
ScrapeLeaderboard ==
    /\ scrape.pc = "leaderboard"
    /\ \E sum \in RequestSummaries :
        /\ Affordable(sum)
        /\ LET out == PlainResult("get_leaderboard",
                          WithBody(sum.out, AgentItems, None, <<>>))
               frame == [Met(sum) EXCEPT !.steps = Record(@, "leaderboard", out)]
           IN  IF Escapes(out) THEN Abort(frame, out)
               ELSE /\ scrape' = [frame EXCEPT
                                    !.pc = "all_posts",
                                    !.result.agents =
                                        IF out.kind = "return" THEN ToDicts(out.val) ELSE @]
                    /\ UNCHANGED session
    /\ UNCHANGED <<config, elsewhere, op, cpc, cout, request_frame, args, collector_frame, requests>>

\* if include_comments and all_posts: the comments loop, else the end of the block.
AfterSubmoltPosts(ic, posts) == IF ic /\ posts # <<>> THEN "comments" ELSE "exit"
\* for submolt in submolts
AfterAllPosts(subs, ic, posts) ==
    IF subs # <<>> THEN "submolt_posts" ELSE AfterSubmoltPosts(ic, posts)

\* Mutant: the feed of a submolt is stored even when it is empty.
KeepsFeed_Always(posts) == TRUE

\* if posts:
KeepsFeed(posts) == posts # <<>>

StepOfFeed(k) ==
    IF k = 0 THEN "all_posts" ELSE "submolt_posts/" \o scrape.submolts[k].name

\* get_all_posts (k = 0) or get_all_submolt_posts (k >= 1) ended with `out`
\* after `pages` page requests and `slept` inter-page sleeps, its last page
\* request having raised `err` (None when it returned): [4/5] and the body of
\* the loop of [5/5].
EndCollection(met, k, out, pages, slept, err) ==
    LET ok == out.kind = "return"
        frame == [met EXCEPT
                    !.steps = Record(@, StepOfFeed(k), out),
                    !.order = Append(@, StepOfFeed(k)),
                    !.collections = @ \cup {[step |-> StepOfFeed(k),
                                             pages |-> pages, sleeps |-> slept,
                                             ended |-> out.kind,
                                             held |-> Len(all_posts),
                                             failed |-> err # None,
                                             propagated |->
                                                 err # None /\ out = Raise(err[1])]}]
    IN  /\ all_posts' = <<>>
        /\ cursor' = None
        /\ page' = 0
        /\ page_sleeps' = 0
        /\ IF Escapes(out) THEN Abort(frame, out)
           ELSE /\ UNCHANGED session
                /\ scrape' =
                     IF k = 0
                     THEN LET posts == IF ok THEN out.val ELSE <<>> IN
                          [frame EXCEPT
                             !.all_posts = posts,
                             !.result.all_posts = IF ok THEN ToDicts(out.val) ELSE @,
                             !.idx = 1,
                             !.pc = AfterAllPosts(scrape.submolts,
                                                  scrape.include_comments, posts)]
                     ELSE [frame EXCEPT
                             !.result.submolt_posts =
                                 IF ok /\ KeepsFeed(out.val)
                                 THEN (scrape.submolts[k].name :> ToDicts(out.val)) @@ @
                                 ELSE @,
                             !.idx = IF k < Len(scrape.submolts) THEN k + 1 ELSE 1,
                             !.pc = IF k < Len(scrape.submolts) THEN "submolt_posts"
                                    ELSE AfterSubmoltPosts(scrape.include_comments,
                                                           scrape.all_posts)]

\* One turn of the while loop of the collector in progress: the page request
\* and the loop body, to the break, the raise or the inter-page sleep.
ScrapeCollectPage ==
    /\ scrape.pc \in {"all_posts", "submolt_posts"}
    /\ \E sum \in RequestSummaries :
        /\ Affordable(sum)
        /\ LET k == IF scrape.pc = "all_posts" THEN 0 ELSE scrape.idx
               pg == FeedPage(k, page + 1)
               res == FeedResult(WithBody(sum.out, pg.items, pg.next_cursor, <<>>))
           IN  IF res.kind = "raise"
               THEN EndCollection(Met(sum), k, OnPageError(all_posts, res), page + 1,
                                  page_sleeps, Some(res.val))
               ELSE LET b == LoopBody(all_posts, cursor, None, res.val) IN
                    IF b.stop
                    THEN EndCollection(Met(sum), k, Return(b.all_posts), page + 1,
                                       page_sleeps + PageSleep(TRUE), None)
                    ELSE /\ all_posts' = b.all_posts
                         /\ cursor' = b.cursor
                         /\ page' = page + 1
                         /\ page_sleeps' = page_sleeps + PageSleep(FALSE)
                         /\ scrape' = [Met(sum) EXCEPT !.suspended = @ \cup {"inter_page"}]
                         /\ UNCHANGED session
    /\ UNCHANGED <<config, elsewhere, op, cpc, cout, request_frame, args, fetched, requests>>

NextPost ==
    [pc |-> IF scrape.idx < Len(scrape.all_posts) THEN "comments" ELSE "exit",
     idx |-> IF scrape.idx < Len(scrape.all_posts) THEN scrape.idx + 1 ELSE 1]

\* [Bonus] a post with comments: comments = api.get_post_comments(post.id),
\* then time.sleep(0.3)
ScrapeComments ==
    /\ scrape.pc = "comments"
    /\ scrape.all_posts[scrape.idx].comment_count > 0
    /\ \E sum \in RequestSummaries :
        /\ Affordable(sum)
        /\ LET post == scrape.all_posts[scrape.idx]
               out == CommentsResult(WithBody(sum.out, CommentItems(post.id), None, <<>>),
                                     post.id)
               frame == [Met(sum) EXCEPT
                           !.steps = Record(@, "comments/" \o ToString(post.id), out)]
           IN  IF Escapes(out) THEN Abort(frame, out)
               ELSE /\ scrape' = [frame EXCEPT
                                    !.pc = NextPost.pc,
                                    !.idx = NextPost.idx,
                                    !.result.comments =
                                        IF out.kind = "return"
                                        THEN (post.id :> ToDicts(out.val)) @@ @ ELSE @,
                                    !.suspended =
                                        IF out.kind = "return" THEN @ \cup {"comment_pause"}
                                        ELSE @]
                    /\ UNCHANGED session
    /\ UNCHANGED <<config, elsewhere, op, cpc, cout, request_frame, args, collector_frame, requests>>

\* [Bonus] a post without comments is passed over.
ScrapeSkipPost ==
    /\ scrape.pc = "comments"
    /\ ~(scrape.all_posts[scrape.idx].comment_count > 0)
    /\ scrape' = [scrape EXCEPT !.pc = NextPost.pc, !.idx = NextPost.idx]
    /\ UNCHANGED <<config, elsewhere, session, op, cpc, cout, request_frame, args,
                   collector_frame, requests>>

\* The end of the with-block, then `return result`.
ScrapeReturn ==
    /\ scrape.pc = "exit"
    /\ scrape' = [scrape EXCEPT !.pc = "returned"]
    /\ scope' = "returned"
    /\ closed' = Exit(None)
    /\ UNCHANGED <<config, elsewhere, op, cpc, cout, request_frame, args, collector_frame, requests>>

InitScrape ==
    /\ Constructed({DefaultMaxRetries}, {DefaultRetryDelay}, ScrapeKeys)
    /\ process = ProcessOf(api_key)

NextScrape ==
    \/ \E ic \in BOOLEAN : ScrapeBegin(ic)
    \/ ScrapeStats
    \/ ScrapeSubmolts
    \/ ScrapeLeaderboard
    \/ ScrapeCollectPage
    \/ ScrapeComments
    \/ ScrapeSkipPost
    \/ ScrapeReturn

SpecScrape == InitScrape /\ [][NextScrape]_vars

(***************************************************************************)
(* The API key: the module-level API_KEY, loaded when api.py is imported,  *)
(* and the api_key argument of MoltbookAPI.  A process starts with an      *)
(* environment and a credential file, imports the module, builds a client  *)
(* and calls _request on it; until __init__ has run, the fields of the     *)
(* client hold what a client built without a key holds.                    *)
(***************************************************************************)
EnvValues == {None, Some(""), Some("envkey")}
FileValues ==
    {NoFile,
     [exists |-> TRUE, config |-> <<>>],
     [exists |-> TRUE, config |-> [api_key |-> None]],
     [exists |-> TRUE, config |-> [api_key |-> Some("")]],
     [exists |-> TRUE, config |-> [api_key |-> Some("filekey")]]}
ExplicitKeys == {None, Some(""), Some("key")}

\* API_KEY = os.getenv("MOLTBOOK_API_KEY"); if not API_KEY: the api_key field
\* of credentials.json when the file exists.
LoadApiKey(env, file) ==
    IF TruthyStr(env) THEN env
    ELSE IF file.exists THEN Get(file.config, "api_key", None)
    ELSE env

InitKey ==
    /\ Constructed({DefaultMaxRetries}, {DefaultRetryDelay}, {None})
    /\ \E env \in EnvValues, file \in FileValues :
          process = [pc |-> "start", env |-> env, file |-> file,
                     API_KEY |-> None, explicit |-> None]

\* import carcinologer.api
ImportModule ==
    /\ process.pc = "start"
    /\ process' = [process EXCEPT !.pc = "imported",
                                  !.API_KEY = LoadApiKey(process.env, process.file)]
    /\ UNCHANGED <<config, explorer, twin, scrape, session, op, cpc, cout, request_frame,
                   args, collector_frame, requests>>

\* MoltbookAPI(api_key=explicit); main() and the examples pass API_KEY.
Construct(explicit) ==
    /\ process.pc = "imported"
    /\ process' = [process EXCEPT !.pc = "constructed", !.explicit = explicit]
    /\ api_key' = explicit
    /\ headers' = Headers(explicit)
    /\ UNCHANGED <<max_retries, retry_delay, explorer, twin, scrape, session, op, cpc, cout,
                   request_frame, args, collector_frame, requests>>

NextKey ==
    \/ ImportModule
    \/ \E explicit \in ExplicitKeys \cup {process.API_KEY} : Construct(explicit)
    \/ process.pc = "constructed" /\ CallRequest
    \/ \E o \in Outcomes : RequestAttempt(o)
    \/ RequestExit
    \/ RequestReturn

SpecKey == InitKey /\ [][NextKey]_vars

(***************************************************************************)
(* NetworkExplorer (network_explorer.py).  The event handlers are plain    *)
(* functions the event loop calls, so they run only while the coroutine    *)
(* that owns the explorer is suspended: between two calls of               *)
(* fetch_pending_bodies, and at its await of the response body.            *)
(***************************************************************************)
MaxDeliveries == 4      \* ResponseReceived and LoadingFinished events delivered

\* URLs, cut into the pieces _should_track looks for.
Url(id) ==
    CASE id = "a" -> <<"https://www.moltbook.com", "/api/", "v1/posts">>
      [] id = "b" -> <<"https://www.moltbook.com/m/general", "?_rsc=", "1b2c">>
      [] id = "x" -> <<"https://www.moltbook.com/static/", "app.js">>

\* patterns = ['/api/', '?_rsc=']; any(p in url for p in patterns)
ShouldTrack(url) == \E i \in 1..Len(url) : url[i] \in {"/api/", "?_rsc="}

\* What the event loop may deliver now.
Deliverable ==
    /\ explorer.fpc \in {"idle", "await"}
    /\ explorer.deliveries < MaxDeliveries

\* _on_response for an event of request `id`
OnResponse(id) ==
    /\ Deliverable
    /\ LET e == [explorer EXCEPT !.deliveries = @ + 1, !.quiet = FALSE] IN
       explorer' =
          IF ~ShouldTrack(Url(id)) THEN e
          ELSE [e EXCEPT
                  !.pending_requests =
                      (id :> [url |-> Url(id), status |-> 200,
                              timestamp |-> e.deliveries]) @@ @,
                  !.recorded[id] = @ + 1]
    /\ UNCHANGED <<config, process, twin, scrape, session, op, cpc, cout, request_frame,
                   args, collector_frame, requests>>

\* Mutant: every LoadingFinished queues its request id.
ShouldQueue_Always(id, pending) == TRUE

\* if request_id in self.pending_requests
ShouldQueue(id, pending) == id \in DOMAIN pending

\* _on_loading_finished for an event of request `id`
OnLoadingFinished(id) ==
    /\ Deliverable
    /\ LET e == [explorer EXCEPT
                   !.deliveries = @ + 1, !.quiet = FALSE,
                   !.finished[id] = @ + 1,
                   !.finished_after[id] =
                       IF explorer.recorded[id] > 0 THEN @ + 1 ELSE @] IN
       explorer' =
          IF ShouldQueue(id, explorer.pending_requests)
          THEN [e EXCEPT !.ready_to_fetch = Append(@, id)]
          ELSE e
    /\ UNCHANGED <<config, process, twin, scrape, session, op, cpc, cout, request_frame,
                   args, collector_frame, requests>>

\* dict.pop(key): the dict without the key.
Without(d, key) == [k \in DOMAIN d \ {key} |-> d[k]]

\* The while loop of fetch_pending_bodies from its head to the next await of
\* a response body, or to the return when the queue is empty.
RECURSIVE Drain(_)
Drain(e) ==
    IF e.ready_to_fetch = <<>>
    THEN [e EXCEPT !.fpc = "idle", !.cur = None, !.quiet = TRUE]
    ELSE LET request_id == Head(e.ready_to_fetch)
             rest == [e EXCEPT !.ready_to_fetch = Tail(@)]
         IN  IF request_id \notin DOMAIN e.pending_requests
             THEN Drain(rest)
             ELSE LET info == e.pending_requests[request_id] IN
                  [rest EXCEPT !.pending_requests = Without(@, request_id),
                               !.cur = Some(info),
                               !.removed = Append(@, info),
                               !.fpc = "await"]

\* await self.fetch_pending_bodies(), as navigate and scroll_page call it.
FetchPendingBodies ==
    /\ explorer.fpc = "idle"
    /\ explorer' = Drain([explorer EXCEPT !.removed = <<>>, !.quiet = FALSE])
    /\ UNCHANGED <<config, process, twin, scrape, session, op, cpc, cout, request_frame,
                   args, collector_frame, requests>>

\* How page.send(get_response_body(request_id)) can end.
BodyResults ==
    {[ok |-> TRUE, body |-> "e30=", base64_encoded |-> TRUE],
     [ok |-> TRUE, body |-> "{}", base64_encoded |-> FALSE],
     [ok |-> FALSE, error |-> "No resource with given identifier found"]}

\* The entry built from info and the outcome of the body fetch.
Entry(info, result) ==
    IF result.ok
    THEN info @@ [body |-> Some(result.body), body_was_base64 |-> result.base64_encoded]
    ELSE info @@ [body |-> None, body_error |-> result.error]

\* Mutant: an info whose body fetch raised is dropped.
Collect_SkipsFailed(collected, info, result) ==
    IF result.ok THEN Append(collected, Entry(info, result)) ELSE collected

\* self.collected_responses.append(info), after the try statement
Collect(collected, info, result) == Append(collected, Entry(info, result))

\* The await of the response body ends with `result`; the entry is appended
\* and the loop goes on.
GetResponseBody(result) ==
    /\ explorer.fpc = "await"
    /\ explorer' =
          Drain([explorer EXCEPT
                   !.collected_responses = Collect(@, explorer.cur[1], result)])
    /\ UNCHANGED <<config, process, twin, scrape, session, op, cpc, cout, request_frame,
                   args, collector_frame, requests>>

InitExplorer ==
    /\ Constructed({DefaultMaxRetries}, {DefaultRetryDelay}, {None})
    /\ process = ProcessOf(api_key)

NextExplorer ==
    \/ \E id \in RequestIds : OnResponse(id)
    \/ \E id \in RequestIds : OnLoadingFinished(id)
    \/ FetchPendingBodies
    \/ \E result \in BodyResults : GetResponseBody(result)

SpecExplorer == InitExplorer /\ [][NextExplorer]_vars

(***************************************************************************)
(* MoltbookAPI.get_all_submolt_posts, run beside get_all_posts.  Both      *)
(* collectors are called with the same max_posts and each of their page    *)
(* requests is answered alike: the _request call of the page ends with the *)
(* same response or the same error for both.                               *)
(***************************************************************************)
\* How the _request call of a page can end.
PageOutcomes ==
    {Return(x) : x \in Responses}
        \cup {Raise(TimeoutException(DefaultMaxRetries - 1)), Raise(ConnectError(0))}

\* Mutant: the cursor is tested before max_posts.
SubmoltLoopBody_CursorBeforeLimit(all, cur, mp, result) ==
    LET posts == result.posts
        ext == all \o posts
        nxt == result.next_cursor
    IN  IF posts = <<>>
        THEN [all_posts |-> all, cursor |-> cur, stop |-> TRUE, why |-> "empty"]
        ELSE IF ~TruthyStr(nxt)
        THEN [all_posts |-> ext, cursor |-> nxt, stop |-> TRUE, why |-> "no_cursor"]
        ELSE IF TruthyInt(mp) /\ Len(ext) >= mp[1]
        THEN [all_posts |-> Take(ext, mp[1]), cursor |-> nxt, stop |-> TRUE,
              why |-> "max_posts"]
        ELSE [all_posts |-> ext, cursor |-> nxt, stop |-> FALSE, why |-> "none"]

\* The loop body of get_all_submolt_posts once get_submolt_posts returned
\* `result`: the new all_posts and cursor, whether the loop breaks, and at
\* which break statement.
SubmoltLoopBody(all, cur, mp, result) ==
    LET posts == result.posts
        ext == all \o posts
        nxt == result.next_cursor
    IN  IF posts = <<>>
        THEN [all_posts |-> all, cursor |-> cur, stop |-> TRUE, why |-> "empty"]
        ELSE IF TruthyInt(mp) /\ Len(ext) >= mp[1]
        THEN [all_posts |-> Take(ext, mp[1]), cursor |-> cur, stop |-> TRUE,
              why |-> "max_posts"]
        ELSE IF ~TruthyStr(nxt)
        THEN [all_posts |-> ext, cursor |-> nxt, stop |-> TRUE, why |-> "no_cursor"]
        ELSE [all_posts |-> ext, cursor |-> nxt, stop |-> FALSE, why |-> "none"]

\* One turn of the while loop of get_all_submolt_posts in the frame t, the
\* _request call of get_submolt_posts having ended with `out`.
SubmoltPage(t, mp, out) ==
    LET asked == [t EXCEPT
                    !.page = @ + 1,
                    !.requests = Append(@, FeedParams("get_submolt_posts", 100, t.cursor))]
        res == FeedResult(out)
    IN  IF res.kind = "raise"
        THEN [asked EXCEPT !.cout = res, !.cpc = "done", !.why = "error"]
        ELSE LET b == SubmoltLoopBody(t.all_posts, t.cursor, mp, res.val) IN
             [asked EXCEPT
                !.all_posts = b.all_posts,
                !.cursor = b.cursor,
                !.page_sleeps = @ + PageSleep(b.stop),
                !.why = b.why,
                !.cpc = IF b.stop THEN "done" ELSE "loop",
                !.cout = IF b.stop THEN Return(b.all_posts) ELSE @]

\* get_all_posts(max_posts=mp) and get_all_submolt_posts(name, max_posts=mp)
PairCall(mp) ==
    /\ scope = "inside"
    /\ cpc \in {"idle", "done"}
    /\ twin.cpc \in {"idle", "done"}
    /\ op' = "get_all_posts"
    /\ cpc' = "loop"
    /\ args' = [max_posts |-> mp]
    /\ requests' = <<>>
    /\ ResetCall
    /\ NoRequest
    /\ twin' = [NewTwin EXCEPT !.cpc = "loop"]
    /\ UNCHANGED <<config, process, explorer, scrape, session>>

\* One turn of the while loop of get_all_posts, its _request call having
\* ended with `out`.
MainPage(out) ==
    /\ page' = page + 1
    /\ requests' = Append(requests, FeedParams("get_posts", 100, cursor))
    /\ LET res == FeedResult(out) IN
        IF res.kind = "raise"
        THEN /\ cout' = OnPageError(all_posts, res)
             /\ cpc' = "done"
             /\ UNCHANGED <<all_posts, cursor, fetched, page_sleeps>>
        ELSE LET b == LoopBody(all_posts, cursor, args.max_posts, res.val) IN
             /\ fetched' = Append(fetched, res.val)
             /\ all_posts' = b.all_posts
             /\ cursor' = b.cursor
             /\ page_sleeps' = page_sleeps + PageSleep(b.stop)
             /\ IF b.stop
                THEN /\ cout' = Return(b.all_posts)
                     /\ cpc' = "done"
                ELSE /\ cpc' = "loop"
                     /\ UNCHANGED cout

\* The next page of each collector that is still in its loop, answered alike.
PairPage(out) ==
    /\ op = "get_all_posts"
    /\ twin.cpc # "idle"
    /\ cpc = "loop" \/ twin.cpc = "loop"
    /\ page < MaxPageReq
    /\ twin.page < MaxPageReq
    /\ IF cpc = "loop" THEN MainPage(out)
       ELSE UNCHANGED <<cpc, cout, collector_frame, requests>>
    /\ twin' = IF twin.cpc = "loop" THEN SubmoltPage(twin, args.max_posts, out)
               ELSE twin
    /\ UNCHANGED <<config, process, explorer, scrape, session, op, request_frame, args>>

InitPair ==
    /\ Constructed({DefaultMaxRetries}, {DefaultRetryDelay}, ScrapeKeys)
    /\ process = ProcessOf(api_key)

NextPair ==
    \/ \E mp \in MaxPostsArgs : PairCall(mp)
    \/ \E out \in PageOutcomes : PairPage(out)

SpecPair == InitPair /\ [][NextPair]_vars

(***************************************************************************)
(* Properties of _request.  They are stated on the histories attempts and  *)
(* sleeps, and so hold of every _request call, whichever public call makes *)
(* it.                                                                     *)
(***************************************************************************)
RetrySetOfTheContract == {429, 500, 502, 503, 504}
Timeout(o) == o.kind = "timeout"
Retryable(o) == o.kind = "response" /\ o.resp.status \in RetrySetOfTheContract
Final(o) == o.kind = "response" /\ o.resp.status \notin RetrySetOfTheContract
LastAttempt == attempts[Len(attempts)]
AllAttempts(P(_)) == attempts # <<>> /\ \A i \in 1..Len(attempts) : P(attempts[i])

\* C1: a _request call all of whose attempts returned a status of the retry
\* set (none timed out) goes on until it has issued exactly max_retries
\* requests, and then returns the response of its last attempt, unchanged,
\* without raising.
C1_AllRetryableReturnsLast ==
    AllAttempts(Retryable) =>
        /\ Len(attempts) <= max_retries
        /\ rpc = "loop" => rout = NoOutcome
        /\ rpc = "done" =>
              /\ Len(attempts) = max_retries
              /\ rout = Return(LastAttempt.resp)

C1_Witness ==
    /\ rpc = "done"
    /\ AllAttempts(Retryable)
    /\ Len(attempts) = max_retries
    /\ max_retries >= 2
    /\ rout.kind = "return"

\* C2: a response whose status is outside the retry set ends the call on the
\* attempt it arrives on: it is the last attempt, it is what _request returns,
\* and no backoff sleep follows it (the sleeps are those of the attempts
\* before it).
C2_OtherStatusReturnedAtOnce ==
    \A i \in 1..Len(attempts) :
        Final(attempts[i]) =>
            /\ i = Len(attempts)
            /\ rpc = "done"
            /\ rout = Return(attempts[i].resp)
            /\ Len(sleeps) = i - 1

C2_Witness ==
    /\ Len(attempts) = 2
    /\ Retryable(attempts[1])
    /\ Final(attempts[2])
    /\ attempts[2].resp.status = 404
    /\ rout = Return(attempts[2].resp)

\* C3: a _request call all of whose attempts timed out makes exactly
\* max_retries attempts and then raises the timeout of its last attempt.
C3_AllTimeoutsRaiseLast ==
    AllAttempts(Timeout) =>
        /\ Len(attempts) <= max_retries
        /\ rpc = "loop" => rout = NoOutcome
        /\ rpc = "done" =>
              /\ Len(attempts) = max_retries
              /\ rout = Raise(TimeoutException(Len(attempts) - 1))

C3_Witness ==
    /\ rpc = "done"
    /\ AllAttempts(Timeout)
    /\ Len(attempts) = max_retries
    /\ max_retries >= 2
    /\ rout.kind = "raise"

\* C9: when the attempt budget is exhausted and the last attempt returned a
\* retryable status, the call returns that response and raises nothing, also
\* when an earlier attempt timed out; it raises a timeout only when its last
\* attempt timed out.
C9_ExhaustedReturnsLastResponse ==
    (rpc = "done" /\ attempts # <<>>) =>
        /\ (Len(attempts) = max_retries /\ Retryable(LastAttempt))
              => rout = Return(LastAttempt.resp)
        /\ (rout.kind = "raise" /\ rout.val.exc = "TimeoutException")
              => Timeout(LastAttempt)

\* C10: a finished _request call either returned a response one of its own
\* attempts received, or raised a transport error.
C10_ReturnsResponseOrTransportError ==
    rpc = "done" =>
        \/ /\ rout.kind = "return"
           /\ \E i \in 1..Len(attempts) :
                 attempts[i].kind = "response" /\ attempts[i].resp = rout.val
        \/ /\ rout.kind = "raise"
           /\ rout.val.exc \in {"TimeoutException", "ConnectError"}

Failed(o) == Timeout(o) \/ Retryable(o)

\* C11: when an attempt of a _request call receives a response outside the
\* retry set, the call returns exactly that response and raises nothing,
\* whatever timeouts and retryable statuses the attempts before it met.
C11_TransientFailuresAreInvisible ==
    (rpc = "done" /\ attempts # <<>> /\ Final(LastAttempt)) =>
        /\ Len(attempts) <= max_retries
        /\ \A i \in 1..(Len(attempts) - 1) : Failed(attempts[i])
        /\ rout = Return(LastAttempt.resp)

C11_Witness ==
    /\ rpc = "done"
    /\ Len(attempts) = 3
    /\ Timeout(attempts[1])
    /\ Retryable(attempts[2])
    /\ Final(attempts[3])
    /\ attempts[3].resp.status = 401
    /\ rout = Return(attempts[3].resp)

\* C12: the k-th backoff sleep of a _request call follows the failed attempt
\* of index k - 1 and lasts retry_delay * k, after a timeout as after a
\* retryable status; the delays of one call grow by retry_delay each time,
\* strictly when retry_delay > 0.
C12_LinearBackoff ==
    /\ Len(sleeps) <= Len(attempts)
    /\ \A k \in 1..Len(sleeps) :
          /\ Failed(attempts[k])
          /\ sleeps[k] = retry_delay * k
    /\ \A k \in 1..(Len(sleeps) - 1) :
          /\ sleeps[k + 1] - sleeps[k] = retry_delay
          /\ retry_delay > 0 => sleeps[k] < sleeps[k + 1]

C12_Witness ==
    /\ retry_delay = 2
    /\ Len(attempts) = 3
    /\ Timeout(attempts[1])
    /\ Retryable(attempts[2])
    /\ Timeout(attempts[3])
    /\ sleeps = <<2, 4, 6>>

\* The step-by-step _request and its summary RunRequest agree: a finished call
\* ended, and slept, as RunRequest says of the outcomes it met.
RunRequestAgrees ==
    rpc = "done" =>
        /\ rout = RunRequest(attempts).out
        /\ sleeps = RunRequest(attempts).sleeps

(***************************************************************************)
(* Properties of the collector get_all_posts and of the endpoints.         *)
(***************************************************************************)
Collecting == op = "get_all_posts"
Finished == cpc = "done"
Returned == cpc = "done" /\ cout.kind = "return"
Unlimited == args.max_posts = None
Received == Concat(Pages)
FirstN(s, n) == [i \in 1..(IF n <= Len(s) THEN n ELSE Len(s)) |-> s[i]]
NoKeyConfigured == api_key \in {None, Some("")}

\* C4: without max_posts, the posts get_all_posts holds, and those it returns,
\* are the concatenation in page order of the record lists of the pages it
\* fetched: nothing dropped, duplicated or reordered.
C4_ResultIsConcatenationOfPages ==
    (Collecting /\ Unlimited) =>
        /\ all_posts = Received
        /\ Returned => cout.val = Received

C4_Witness ==
    /\ Collecting /\ Unlimited /\ Returned
    /\ Len(fetched) = 3
    /\ Len(fetched[1].posts) = 2
    /\ Len(fetched[2].posts) = 1
    /\ Len(cout.val) = 5

\* C5: for every max_posts = N >= 0, when the pages hold more than N
\* records, get_all_posts returns exactly the first N of them in page order.
C5_ExactlyNForEveryN ==
    (Collecting /\ Returned /\ ~Unlimited /\ Len(Received) > args.max_posts[1])
        => cout.val = FirstN(Received, args.max_posts[1])

\* C6: a non-empty page whose response carries no next cursor is the last
\* one: the collector has returned what it accumulated and issued no further
\* page request.
C6_NoCursorStopsCollection ==
    Collecting =>
        \A i \in 1..Len(fetched) :
            (fetched[i].posts # <<>> /\ fetched[i].next_cursor = None) =>
                /\ i = Len(fetched)
                /\ Len(requests) = i
                /\ Returned
                /\ cout.val = all_posts
                /\ Unlimited => cout.val = Received

C6_Witness ==
    /\ Collecting /\ Unlimited /\ Returned
    /\ Len(fetched) = 2
    /\ fetched[2].posts # <<>>
    /\ fetched[2].next_cursor = None
    /\ Len(cout.val) > Len(fetched[2].posts)

\* C7: when the first page holds no record, get_all_posts returns the empty
\* sequence after exactly one page request, and the cursor of that response
\* never reaches the collector's cursor or a request, even when the response
\* carries one.
C7_EmptyFirstPage ==
    (Collecting /\ fetched # <<>> /\ fetched[1].posts = <<>>) =>
        /\ Len(fetched) = 1
        /\ Len(requests) = 1
        /\ requests[1].before = None
        /\ cursor = None
        /\ cout = Return(<<>>)
        /\ Finished

C7_Witness ==
    /\ Collecting /\ Returned
    /\ Len(fetched) = 1
    /\ fetched[1].posts = <<>>
    /\ fetched[1].next_cursor # None
    /\ cout.val = <<>>

\* C8: with no API key configured, a final response of status 401 makes
\* get_posts and get_submolt_posts return {posts: [], next_cursor: None} and
\* get_post_comments return [], none of them raising.
C8_Unauthenticated401IsEmpty ==
    (op \in Endpoints /\ Finished /\ NoKeyConfigured
        /\ rout.kind = "return" /\ rout.val.status = 401) =>
            cout = IF op = "get_post_comments"
                   THEN Return(<<>>)
                   ELSE Return([posts |-> <<>>, next_cursor |-> None])

C8_Witness ==
    /\ op = "get_submolt_posts" /\ Finished
    /\ api_key = None
    /\ rout.kind = "return" /\ rout.val.status = 401
    /\ Len(attempts) = 2
    /\ cout.kind = "return"

\* C13: a fetch call whose final response has a non-success status raises a
\* status error carrying that status and returns no records, except for a
\* 401 received with no API key configured on a post/comment endpoint; a 401
\* received with a key configured raises like any other.
FetchCalls == Endpoints \cup PlainEndpoints
FinalResponse == Finished /\ rout.kind = "return"
Downgraded == rout.val.status = 401 /\ NoKeyConfigured /\ op \in Endpoints

C13_HardFailureRaises ==
    (op \in FetchCalls /\ FinalResponse
        /\ rout.val.status \notin 200..299 /\ ~Downgraded) =>
            cout = Raise(HTTPStatusError(rout.val.status))

C13_Witness ==
    /\ op = "get_posts" /\ FinalResponse
    /\ api_key = Some("key")
    /\ rout.val.status = 401
    /\ cout = Raise(HTTPStatusError(401))

\* C16: the first page request of a collection carries no `before`, and every
\* later page request carries as `before` the next cursor of the page response
\* just before it, which is a cursor and not an absent one.
C16_CursorEcho ==
    Collecting =>
        \A i \in 1..Len(requests) :
            IF i = 1 THEN requests[i].before = None
            ELSE /\ i - 1 <= Len(fetched)
                 /\ requests[i].before = fetched[i - 1].next_cursor
                 /\ requests[i].before # None

C16_Witness ==
    /\ Collecting
    /\ Len(requests) = 3
    /\ requests[1].before = None
    /\ requests[2].before = Some("c1")
    /\ requests[3].before = Some("c2")

\* The collector after it handled a page: about to loop or finished.
LastPage == fetched[Len(fetched)]
PageHandled ==
    Collecting /\ fetched # <<>> /\ Len(fetched) = page /\ cpc \in {"loop", "done"}
MaxReached == ~Unlimited /\ Len(Received) >= args.max_posts[1]
AuthDenied == rout.kind = "return" /\ rout.val.status = 401
\* The four terminal causes, in the order the loop tests them.
TerminalCauses ==
    {c \in {"EMPTY", "LIMIT_REACHED", "NO_CURSOR", "AUTH_DENIED"} :
        CASE c = "AUTH_DENIED" -> AuthDenied
          [] c = "EMPTY" -> ~AuthDenied /\ LastPage.posts = <<>>
          [] c = "LIMIT_REACHED" -> LastPage.posts # <<>> /\ MaxReached
          [] c = "NO_CURSOR" ->
                /\ LastPage.posts # <<>> /\ ~MaxReached
                /\ ~TruthyStr(LastPage.next_cursor)}

\* C17: after a page, the collector goes on to a further page request if and
\* only if the page was non-empty, the maximum (if any) is not reached and the
\* response carried a cursor; a run that finished did so through exactly one
\* of EMPTY, LIMIT_REACHED, NO_CURSOR, AUTH_DENIED; and a 401 without a key
\* ends the run with the records accumulated so far, not with an error.
C17_CollectorStateMachine ==
    PageHandled =>
        /\ cpc = "loop" <=>
              /\ LastPage.posts # <<>>
              /\ ~MaxReached
              /\ TruthyStr(LastPage.next_cursor)
        /\ cpc = "done" => Cardinality(TerminalCauses) = 1
        /\ AuthDenied =>
              /\ NoKeyConfigured
              /\ cpc = "done"
              /\ cout = Return(all_posts)
              /\ Unlimited => cout.val = Received

\* C18: get_posts and get_submolt_posts send limit = min(limit, 100), never
\* above 100, for every requested limit; every page request of the collector
\* asks for 100.
C18_LimitIsClamped ==
    /\ (op \in FeedEndpoints /\ requests # <<>>) =>
          /\ requests[1].limit = (IF args.limit <= 100 THEN args.limit ELSE 100)
          /\ requests[1].limit <= 100
    /\ Collecting => \A i \in 1..Len(requests) : requests[i].limit = 100

C18_Witness ==
    /\ op = "get_submolt_posts"
    /\ args.limit = 150
    /\ requests[1].limit = 100

\* C15: once the with-block holding the client is left, by its end or by an
\* error escaping it, the session is closed; the session is closed only then;
\* and from the close on no _request is in progress and no request is issued.
C15_SessionClosedOnEveryExit ==
    /\ [](scope # "inside" => closed)
    /\ [](closed => (scope # "inside" /\ rpc # "loop" /\ cpc # "await"))
    /\ [][closed => (attempts' = attempts /\ requests' = requests)]_vars

C15_Witness ==
    /\ scope = "raised"
    /\ closed
    /\ op = "get_leaderboard"
    /\ cout = Raise(HTTPStatusError(404))
    /\ attempts # <<>>

(***************************************************************************)
(* Properties of the API key and of the Authorization header.              *)
(***************************************************************************)
FileKey(file) == IF file.exists THEN Get(file.config, "api_key", None) ELSE None
\* The first source that holds a key, in the order explicit value,
\* environment variable, credential file; None when none holds one.
Resolved ==
    IF TruthyStr(process.explicit) THEN process.explicit
    ELSE IF TruthyStr(process.env) THEN process.env
    ELSE IF TruthyStr(FileKey(process.file)) THEN FileKey(process.file)
    ELSE None

\* C21: the key of a client is the explicit value, else the environment
\* variable, else the api_key field of the credential file, a later source
\* being used exactly when every earlier one is absent; a client built
\* without an explicit key uses the environment/file key when there is one.
C21_ResolutionOrder ==
    process.pc = "constructed" =>
        IF Resolved # None THEN api_key = Resolved ELSE ~TruthyStr(api_key)

(***************************************************************************)
(* Properties of scrape_all_data.                                          *)
(***************************************************************************)
Scraping == scrape.pc # "idle"
ScrapeDone == scrape.pc \in {"exit", "returned"}
Executed(id) == id \in DOMAIN scrape.steps
\* What the step `id` returned, or `default` when it raised.
Data(id, default) ==
    IF scrape.steps[id].ok THEN scrape.steps[id].data ELSE default
SubmoltStep(i) == "submolt_posts/" \o scrape.submolts[i].name
CommentStep(i) == "comments/" \o ToString(scrape.all_posts[i].id)
Commented(i) == scrape.all_posts[i].comment_count > 0

\* C14: no error of a collection step ends scrape_all_data; when it is through,
\* the four fixed steps, the feed of every listed submolt and (when asked for)
\* the comments of every collected post that has some have all been executed,
\* whichever of the others failed, and the result dict holds what each of them
\* returned and its initial value where one failed.
C14_EveryStepRunsAndReports ==
    /\ scrape.pc # "raised"
    /\ ScrapeDone =>
          /\ \A id \in {"stats", "submolts", "leaderboard", "all_posts"} : Executed(id)
          /\ scrape.result.stats = Data("stats", <<>>)
          /\ scrape.result.submolts = Data("submolts", <<>>)
          /\ scrape.result.agents = Data("leaderboard", <<>>)
          /\ scrape.result.all_posts = Data("all_posts", <<>>)
          /\ \A i \in 1..Len(scrape.submolts) :
                /\ Executed(SubmoltStep(i))
                /\ LET name == scrape.submolts[i].name
                       posts == Data(SubmoltStep(i), <<>>)
                   IN  IF posts # <<>>
                       THEN /\ name \in DOMAIN scrape.result.submolt_posts
                            /\ scrape.result.submolt_posts[name] = posts
                       ELSE name \notin DOMAIN scrape.result.submolt_posts
          /\ \A i \in 1..Len(scrape.all_posts) :
                (scrape.include_comments /\ Commented(i)) =>
                    /\ Executed(CommentStep(i))
                    /\ LET id == scrape.all_posts[i].id IN
                       IF scrape.steps[CommentStep(i)].ok
                       THEN /\ id \in DOMAIN scrape.result.comments
                            /\ scrape.result.comments[id] = scrape.steps[CommentStep(i)].data
                       ELSE id \notin DOMAIN scrape.result.comments

C14_Witness ==
    /\ scrape.pc = "returned"
    /\ scrape.steps["stats"].ok
    /\ ~scrape.steps["leaderboard"].ok
    /\ Len(scrape.submolts) = 2
    /\ ~scrape.steps["submolt_posts/m1"].ok
    /\ scrape.steps["submolt_posts/m2"].ok
    /\ DOMAIN scrape.result.submolt_posts = {"m2"}
    /\ scrape.result.agents = <<>>
    /\ Len(scrape.result.all_posts) = 2

\* A collection that requested P >= 1 pages slept P - 1 times between pages;
\* while it goes on, it has slept once after each page so far.
InterPageSleeps ==
    /\ \A c \in scrape.collections : c.pages >= 1 /\ c.sleeps = c.pages - 1
    /\ page_sleeps = page

\* C19 as stated: execution suspends at the backoff of _request and at the
\* inter-page sleep of a collector and nowhere else, and a collection of
\* P >= 1 pages sleeps exactly P - 1 times between pages.
C19_SuspendsAtTwoPoints ==
    Scraping =>
        /\ scrape.suspended \subseteq {"backoff", "inter_page"}
        /\ InterPageSleeps

\* C19 amended: scrape_all_data also sleeps after every comment fetch that
\* returned; these three are the only suspensions, and a collection of
\* P >= 1 pages sleeps exactly P - 1 times between pages.
C19_SuspendsAtThreePoints ==
    Scraping =>
        /\ scrape.suspended \subseteq {"backoff", "inter_page", "comment_pause"}
        /\ "comment_pause" \in scrape.suspended =>
              /\ scrape.include_comments
              /\ \E i \in 1..Len(scrape.all_posts) :
                    Executed(CommentStep(i)) /\ scrape.steps[CommentStep(i)].ok
        /\ InterPageSleeps

C19_Witness ==
    /\ scrape.pc = "returned"
    /\ scrape.suspended = {"backoff", "inter_page", "comment_pause"}
    /\ \E c \in scrape.collections :
          c.pages = 2 /\ c.sleeps = 1 /\ c.ended = "return"
    /\ \E c \in scrape.collections :
          c.pages = 2 /\ c.sleeps = 1 /\ c.ended = "raise"

(***************************************************************************)
(* Properties of the records built from a response.                        *)
(***************************************************************************)
\* The documented default of an optional field.
DocumentedDefault(key) ==
    CASE key \in {"parent_id", "content", "url"} -> None
      [] key = "is_pinned" -> FALSE
      [] key \in {"post_count", "comment_count", "score"} -> 0

OptionalFields ==
    {"parent_id", "content", "url", "is_pinned", "post_count", "comment_count", "score"}

\* The record rec carries every field of the JSON object json, and the
\* documented default for each optional field json leaves out.
Mirrors(rec, json) ==
    /\ \A key \in DOMAIN json : key \in DOMAIN rec /\ rec[key] = json[key]
    /\ \A key \in (OptionalFields \cap DOMAIN rec) \ DOMAIN json :
          rec[key] = DocumentedDefault(key)

MirrorsAll(recs, items) ==
    /\ Len(recs) = Len(items)
    /\ \A i \in 1..Len(items) : Mirrors(recs[i], items[i])

Answered200 == Finished /\ rout.kind = "return" /\ rout.val.status = 200

\* C20: on a 200 response an endpoint returns one record per entry of the
\* response list, in response order, each field equal to the JSON field of
\* the same name, and the documented default where an optional field is
\* absent; it does not raise.
C20_RecordsMirrorTheResponse ==
    Answered200 =>
        CASE op \in FeedEndpoints ->
                /\ cout.kind = "return"
                /\ MirrorsAll(cout.val.posts, rout.val.items)
          [] op \in {"get_post_comments", "get_leaderboard", "get_submolts"} ->
                /\ cout.kind = "return"
                /\ MirrorsAll(cout.val, rout.val.items)
          [] OTHER -> TRUE

C20_Witness ==
    /\ Answered200
    /\ op = "get_posts"
    /\ Len(rout.val.items) = 2
    /\ "url" \in DOMAIN rout.val.items[2]
    /\ "url" \notin DOMAIN rout.val.items[1]
    /\ cout.val.posts[1].is_pinned = FALSE
    /\ cout.val.posts[2].is_pinned = TRUE

(***************************************************************************)
(* Properties of the header, the retry budget and the page budget.         *)
(***************************************************************************)
KeyConfigured == TruthyStr(api_key)
HasAuthorization(o) == o.authorization # None
Unauthenticated == \A i \in 1..Len(attempts) : ~HasAuthorization(attempts[i])

\* C22: every request of a client, retries and the requests of every page
\* included, carries the bearer Authorization header if and only if an API
\* key is configured; so a final 401 of a feed or comment call is handled
\* softly exactly when the requests of the client carried no Authorization.
C22_BearerIffKeyConfigured ==
    /\ \A i \in 1..Len(attempts) :
          /\ HasAuthorization(attempts[i]) <=> KeyConfigured
          /\ KeyConfigured =>
                attempts[i].authorization = Some("Bearer " \o api_key[1])
    /\ (op \in Endpoints \cup {"get_all_posts"} /\ Finished /\ AuthDenied) =>
          /\ cout.kind = "return" <=> Unauthenticated
          /\ cout = Raise(HTTPStatusError(401)) <=> ~Unauthenticated

C22_Witness ==
    /\ Collecting /\ Finished
    /\ api_key = Some("key")
    /\ page = 2
    /\ Len(attempts) = 2
    /\ \A i \in 1..2 : attempts[i].authorization = Some("Bearer key")
    /\ AuthDenied
    /\ cout = Raise(HTTPStatusError(401))

\* C23: a _request call issues at most max_retries requests, the request
\* k + 1 only after the request k failed (timeout or retryable status), and
\* its budget is its own: every call starts from index 0, so one that ended
\* before max_retries requests ended on an attempt that did not fail.
C23_BoundedRetryPerCall ==
    rpc # "idle" =>
        /\ Len(attempts) <= max_retries
        /\ \A k \in 1..(Len(attempts) - 1) : Failed(attempts[k])
        /\ rpc = "loop" =>
              /\ attempt = Len(attempts)
              /\ \A k \in 1..Len(attempts) : Failed(attempts[k])
        /\ (rpc = "done" /\ Len(attempts) < max_retries) =>
              /\ attempts # <<>>
              /\ ~Failed(LastAttempt)

C23_Witness ==
    /\ Collecting
    /\ max_retries = 2
    /\ Len(fetched) = 1
    /\ page = 2
    /\ rpc = "done"
    /\ Len(attempts) = 2
    /\ Failed(attempts[1])

\* C24: with max_posts = N >= 1 a collection makes at most N page requests
\* and has ended once N pages are handled; with no max_posts it goes on after
\* every non-empty page that carries a cursor, and returns only after an
\* empty page or a page without cursor (it ends otherwise on an error).
C24_PageBudget ==
    Collecting =>
        /\ (~Unlimited /\ args.max_posts[1] >= 1) =>
              /\ page <= args.max_posts[1]
              /\ (PageHandled /\ page = args.max_posts[1]) => Finished
        /\ (Unlimited /\ PageHandled /\ LastPage.posts # <<>>
                /\ TruthyStr(LastPage.next_cursor)) => cpc = "loop"
        /\ (Unlimited /\ Returned) =>
              /\ fetched # <<>>
              /\ LastPage.posts = <<>> \/ ~TruthyStr(LastPage.next_cursor)

C24_Witness ==
    /\ Collecting /\ Returned
    /\ args.max_posts = Some(2)
    /\ page = 2
    /\ Len(fetched) = 2
    /\ Len(fetched[1].posts) = 1
    /\ TruthyStr(fetched[2].next_cursor)
    /\ Len(cout.val) = 2

FailedCount == Cardinality({k \in 1..Len(attempts) : Failed(attempts[k])})

\* C26: a _request call has slept once for each of its failed attempts; the
\* sleep follows the final failed attempt too, where it lasts
\* retry_delay * max_retries, and the loop is over after it: no request
\* follows.
C26_SleepAfterEveryFailure ==
    /\ Len(sleeps) = FailedCount
    /\ (rpc # "idle" /\ Len(attempts) = max_retries /\ max_retries > 0
            /\ Failed(LastAttempt)) =>
          /\ Len(sleeps) = max_retries
          /\ sleeps[max_retries] = retry_delay * max_retries
          /\ ~InRange(attempt)

C26_Witness ==
    /\ rpc = "done"
    /\ max_retries = 3
    /\ retry_delay = 2
    /\ Len(attempts) = 3
    /\ Timeout(attempts[1])
    /\ Retryable(attempts[2])
    /\ Retryable(attempts[3])
    /\ sleeps = <<2, 4, 6>>
    /\ rout.kind = "raise"

(***************************************************************************)
(* Properties of the collections of scrape_all_data.                       *)
(***************************************************************************)
MainFeed(c) == c.step = "all_posts"
PageFailed(c) == c.failed

\* C25: when a page request of get_all_posts raises after k >= 1 pages were
\* accumulated, get_all_posts raises that error and returns none of the
\* records it held, and scrape_all_data reports an empty all_posts.
C25_AllOrNothing ==
    Scraping =>
        \A c \in scrape.collections :
            (MainFeed(c) /\ PageFailed(c) /\ c.pages >= 2) =>
                /\ c.held >= 1
                /\ c.ended = "raise"
                /\ c.propagated
                /\ ~scrape.steps["all_posts"].ok
                /\ scrape.steps["all_posts"].data = <<>>
                /\ scrape.all_posts = <<>>
                /\ scrape.result.all_posts = <<>>

C25_Witness ==
    /\ scrape.pc = "returned"
    /\ \E c \in scrape.collections :
          /\ MainFeed(c) /\ PageFailed(c)
          /\ c.pages = 2 /\ c.held = 1
    /\ ~scrape.steps["all_posts"].ok
    /\ scrape.result.all_posts = <<>>
    /\ scrape.result.stats # <<>>

ListedFeeds == [j \in 1..Len(scrape.submolts) |-> SubmoltStep(j)]
\* The collections that ended after the one of the main feed, in order.
FeedsCollected == [j \in 1..(Len(scrape.order) - 1) |-> scrape.order[j + 1]]
ListingFailed == Executed("submolts") /\ ~scrape.steps["submolts"].ok

\* C27: the per-submolt feeds are collected exactly for the listed submolts,
\* once each and in listing order, after the main feed; when the listing
\* failed no per-submolt request is made; and result.submolt_posts has a key
\* exactly for the submolts whose collection returned at least one post.
C27_FeedsFollowTheListing ==
    Scraping =>
        /\ scrape.order # <<>> => scrape.order[1] = "all_posts"
        /\ Len(FeedsCollected) <= Len(ListedFeeds)
        /\ \A j \in 1..Len(FeedsCollected) : FeedsCollected[j] = ListedFeeds[j]
        /\ scrape.pc = "submolt_posts" =>
              /\ scrape.idx = Len(FeedsCollected) + 1
              /\ scrape.idx <= Len(ListedFeeds)
        /\ ScrapeDone => FeedsCollected = ListedFeeds
        /\ ListingFailed =>
              /\ scrape.pc # "submolt_posts"
              /\ FeedsCollected = <<>>
              /\ scrape.result.submolt_posts = <<>>
        /\ \A c \in scrape.collections :
              ~MainFeed(c) => \E j \in 1..Len(ListedFeeds) : c.step = ListedFeeds[j]
        /\ DOMAIN scrape.result.submolt_posts =
              {scrape.submolts[j].name : j \in
                  {i \in 1..Len(FeedsCollected) :
                      /\ scrape.steps[ListedFeeds[i]].ok
                      /\ scrape.steps[ListedFeeds[i]].data # <<>>}}

C27_Witness ==
    /\ scrape.pc = "returned"
    /\ api_key = None
    /\ Len(scrape.submolts) = 2
    /\ scrape.order = <<"all_posts", "submolt_posts/m1", "submolt_posts/m2">>
    /\ scrape.steps["submolt_posts/m1"].ok
    /\ scrape.steps["submolt_posts/m1"].data = <<>>
    /\ DOMAIN scrape.result.submolt_posts = {"m2"}

(***************************************************************************)
(* Properties of NetworkExplorer.                                          *)
(***************************************************************************)
Tracked == {id \in RequestIds : ShouldTrack(Url(id))}
Collected == explorer.collected_responses
\* The positions of collected_responses that hold a response of request id.
EntriesOf(id) == {j \in 1..Len(Collected) : Collected[j].url = Url(id)}
\* The positions of collected_responses built from the info `info`.
EntriesFrom(info) ==
    {j \in 1..Len(Collected) :
        /\ Collected[j].url = info.url
        /\ Collected[j].timestamp = info.timestamp}

\* C28: collected_responses holds an entry only for a request id of which a
\* tracked ResponseReceived was recorded and a LoadingFinished handled after
\* it; it holds at most one entry per recorded ResponseReceived, and no more
\* entries of an id than LoadingFinished events handled after one, however
\* often LoadingFinished is delivered.
C28_CollectsOnceAndInProtocol ==
    /\ \A id \in RequestIds :
          /\ EntriesOf(id) # {} =>
                /\ id \in Tracked
                /\ explorer.recorded[id] >= 1
                /\ explorer.finished_after[id] >= 1
          /\ Cardinality(EntriesOf(id)) <= explorer.recorded[id]
          /\ Cardinality(EntriesOf(id)) <= explorer.finished_after[id]
    /\ \A i, j \in 1..Len(Collected) :
          (/\ Collected[i].url = Collected[j].url
           /\ Collected[i].timestamp = Collected[j].timestamp) => i = j

C28_Witness ==
    /\ explorer.quiet
    /\ explorer.recorded["a"] = 1
    /\ explorer.finished_after["a"] = 2
    /\ explorer.finished["x"] = 1
    /\ Cardinality(EntriesOf("a")) = 1
    /\ Len(Collected) = 1

\* C29: when a fetch_pending_bodies call has completed, every tracked request
\* of which a ResponseReceived and a LoadingFinished had been delivered, in
\* either order, has an entry in collected_responses.
C29_BothDeliveredIsCollected ==
    explorer.quiet =>
        \A id \in Tracked :
            (explorer.recorded[id] >= 1 /\ explorer.finished[id] >= 1) =>
                EntriesOf(id) # {}

\* What the code ensures: the requests whose LoadingFinished came after their
\* ResponseReceived are collected by the next call that completes.
FinishedAfterIsCollected ==
    explorer.quiet =>
        \A id \in Tracked : explorer.finished_after[id] >= 1 => EntriesOf(id) # {}

\* C30: when fetch_pending_bodies returns, ready_to_fetch is empty and every
\* info the call removed from pending_requests has exactly one entry in
\* collected_responses; the entry of a body fetch that raised has body None
\* and a body_error, and the infos removed after it have their entries too:
\* the entries the call appended are those of the infos it removed, in order.
C30_DrainsCompletely ==
    LET removed == explorer.removed
        done == IF explorer.fpc = "await" THEN Len(removed) - 1 ELSE Len(removed)
        base == Len(Collected) - done
    IN  /\ explorer.quiet => explorer.fpc = "idle" /\ explorer.ready_to_fetch = <<>>
        /\ explorer.fpc = "idle" => explorer.cur = None
        /\ base >= 0
        /\ \A k \in 1..done :
              /\ EntriesFrom(removed[k]) = {base + k}
              /\ "body" \in DOMAIN Collected[base + k]
              /\ Collected[base + k].body = None =>
                    "body_error" \in DOMAIN Collected[base + k]
              /\ Collected[base + k].body # None =>
                    "body_was_base64" \in DOMAIN Collected[base + k]

C30_Witness ==
    /\ explorer.quiet
    /\ Len(explorer.removed) = 2
    /\ Len(Collected) = 2
    /\ Collected[1].body = None
    /\ "body_error" \in DOMAIN Collected[1]
    /\ Collected[2].body = Some("{}")
    /\ Collected[1].url # Collected[2].url

(***************************************************************************)
(* Properties of the two collectors run side by side.                      *)
(***************************************************************************)
Paired == op = "get_all_posts" /\ twin.cpc # "idle"
BeforeValues(reqs) == [i \in 1..Len(reqs) |-> reqs[i].before]
\* The posts get_all_posts held before the page it handled last.
HeldBefore == Concat([i \in 1..(Len(fetched) - 1) |-> fetched[i].posts])
\* The break statement through which get_all_posts left its loop, or the
\* error that ended it, read from the pages it was given.
MainWhy ==
    IF cpc # "done" THEN "none"
    ELSE IF cout.kind = "raise" THEN "error"
    ELSE IF LastPage.posts = <<>> THEN "empty"
    ELSE IF TruthyInt(args.max_posts)
            /\ Len(HeldBefore) + Len(LastPage.posts) >= args.max_posts[1]
    THEN "max_posts"
    ELSE "no_cursor"

\* C31: given the same max_posts and the same page results, get_all_posts and
\* get_all_submolt_posts are at the same point after every page: they hold and
\* return the same records or raise the same error, have issued the same
\* number of page requests with the same `before` values and limit, have slept
\* as often, and have stopped, if they have, for the same reason.
C31_SamePagination ==
    Paired =>
        /\ twin.cpc = cpc
        /\ twin.cout = cout
        /\ twin.all_posts = all_posts
        /\ twin.cursor = cursor
        /\ twin.page = page
        /\ Len(twin.requests) = Len(requests)
        /\ BeforeValues(twin.requests) = BeforeValues(requests)
        /\ \A i \in 1..Len(requests) :
              /\ twin.requests[i].limit = requests[i].limit
              /\ requests[i].path = Path("get_posts")
              /\ twin.requests[i].path = Path("get_submolt_posts")
        /\ twin.page_sleeps = page_sleeps
        /\ twin.why = MainWhy

C31_Witness ==
    /\ Paired
    /\ cpc = "done" /\ twin.cpc = "done"
    /\ args.max_posts = Some(3)
    /\ twin.page = 2
    /\ BeforeValues(twin.requests) = <<None, Some("c0")>>
    /\ twin.why = "max_posts"
    /\ TruthyStr(LastPage.next_cursor)
    /\ Len(fetched[1].posts) = 2 /\ Len(fetched[2].posts) = 2
    /\ Len(twin.cout.val) = 3
    /\ twin.cout = cout

====
